---- MODULE Spec2Model ----
(***************************************************************************)
(* A model of hreports/hreports.py: class Hreport.  The state is the       *)
(* configuration mapping (config.data), which render_strings_in_dict       *)
(* rewrites in place, config.cmd, the temporary files save() leaves in the *)
(* working directory, and a record of the last call and what it returned.  *)
(*                                                                         *)
(* Values.  Every value of the configuration or of a context is a record   *)
(* [t, a, b]:                                                              *)
(*   none            an absent key (dict.get gives None)                   *)
(*   false           the value False                                       *)
(*   lit  a          a str without template syntax, text a ("" is falsy)   *)
(*   var  a          the str "{{ a }}"                                     *)
(*   attr a b        the str "{{ a.b }}"                                   *)
(*   view a          the dict of section a (context only, an alias)        *)
(*   now, self       datetime.now() and the Hreport instance (context)     *)
(*   doc a b         the text template a renders with output lines of b    *)
(*   path a          the file a of the per-configuration template directory *)
(***************************************************************************)
EXTENDS Integers, FiniteSets, Sequences, TLC

VARIABLES
    loaded,     \* config.data as it was loaded (never assigned again)
    config,     \* config.data now
    cmd,        \* config.cmd
    files,      \* the temporary files present in the working directory
    context,    \* the context the last get_context call returned
    last        \* the last call: its arguments, outcome and result

vars == <<loaded, config, cmd, files, context, last>>

\* The number of temporary files a behaviour may leave behind.
MaxTmp == 1

\* The number of slots in which a loaded configuration differs from Base.
MaxEdits == 1

V(t, a, b) == [t |-> t, a |-> a, b |-> b]
None == V("none", "", "")
False == V("false", "", "")
Lit(s) == V("lit", s, "")
Var(n) == V("var", n, "")
Attr(n, k) == V("attr", n, k)
View(s) == V("view", s, "")
NOW == V("now", "", "")
SELF == V("self", "", "")
Doc(tn, out) == V("doc", tn.a, out.a)

IsStr(v) == v.t \in {"lit", "var", "attr"}
Truthy(v) == v.t \notin {"none", "false"} /\ v # Lit("")

Keys == {"query", "ledger", "template", "styling", "filename", ""}
VarNames == {"x", "y", "z", "report"}
ReportNames == {"R1", "R2"}
Sections == {"global"} \cup ReportNames
CtxNames == VarNames \cup {"now", "global", "report", "hreport"}

\* The names a caller may pass: a report, a name that is no report, no name.
NoName == ""
NameArgs == ReportNames \cup {"R0", NoName}

NoKeys == [k \in Keys |-> None]
NoVars == [n \in VarNames |-> None]
Section(keys, variables) == [keys |-> keys, vars |-> variables]

\* A section as a dict: empty when it has no key at all.
SecEmpty(s) == s.keys = NoKeys /\ s.vars = NoVars
HasVariables(s) == s.vars # NoVars

get_global_config(cfg) == cfg["global"]

get_report_config(cfg, name) ==
    IF name \in ReportNames THEN cfg[name] ELSE Section(NoKeys, NoVars)

\* dict.get(key, None) on a section whose option keys are strings: a key that
\* is no str (None, False) is never found.
SectionGet(s, key) ==
    IF IsStr(key) /\ key.t = "lit" /\ key.a \in Keys THEN s.keys[key.a] ELSE None

get_global_config_value(cfg, key) == SectionGet(get_global_config(cfg), key)

\* For C6: the global lookup made with the requested key.
KeyFallback(value, key) == Lit(key)

\* The key of the global lookup of line 51: `value`, the falsy result of the
\* report lookup, and not `key`.
FallbackKey(value, key) == value

get_report_config_value(cfg, name, key) ==
    LET report_config == get_report_config(cfg, name)
        value == IF ~SecEmpty(report_config)
                 THEN SectionGet(report_config, Lit(key))
                 ELSE False
    IN  IF ~Truthy(value)
        THEN get_global_config_value(cfg, FallbackKey(value, key))
        ELSE value

\* Autoescaping of a printed value: select_autoescape() is on for templates
\* made from strings, so the markup characters of a printed value are replaced.
Escape(s) == IF s = "a&b" THEN "a&amp;b" ELSE s

\* What printing a context value writes into the rendered text.
StrOf(v) ==
    CASE v.t = "lit" -> Lit(Escape(v.a))
      [] v.t \in {"var", "attr"} -> v
      [] v.t = "false" -> Lit("False")
      [] v.t = "view" -> Lit("{dict}")
      [] v.t = "now" -> Lit("NOW")
      [] OTHER -> Lit("&lt;Hreport&gt;")

\* Rendering raises UndefinedError when "{{ a.b }}" names an undefined a.
Raises(v, ctx) == v.t = "attr" /\ ctx[v.a] = None

\* env.from_string(v).render(ctx), for a str v that does not raise.  An
\* undefined name prints as the empty string; a view is the section it aliases.
RenderStr(v, ctx, cfg) ==
    CASE v.t = "lit" -> v
      [] v.t = "var" -> IF ctx[v.a] = None THEN Lit("") ELSE StrOf(ctx[v.a])
      [] OTHER ->
           LET base == ctx[v.a]
               w == IF base.t = "view" THEN SectionGet(cfg[base.a], Lit(v.b))
                    ELSE None
           IN  IF w = None THEN Lit("") ELSE StrOf(w)

\* dict.update(d) for a mapping d over variable names: defined names override.
ContextUpdate(ctx, d) ==
    [n \in CtxNames |-> IF n \in DOMAIN d /\ d[n] # None THEN d[n] ELSE ctx[n]]

\* For C4: a merge in which the names already in the context win.
ContextKeep(ctx, d) ==
    [n \in CtxNames |-> IF ctx[n] # None \/ n \notin DOMAIN d THEN ctx[n] ELSE d[n]]

\* context.update(data_dict) of line 85.
MergeInto(ctx, d) == ContextUpdate(ctx, d)

\* The loop of lines 78-81 over the dict d, rewriting d in place.  The outcomes:
\* every str value rendered, or, when some value raises, the values the loop
\* reached before it rendered (the order of a dict is not the program's choice)
\* and the exception.
RenderLoop(d, ctx, cfg) ==
    LET strs == {k \in DOMAIN d : IsStr(d[k])}
        bad == {k \in strs : Raises(d[k], ctx)}
        Upto(S) == [k \in DOMAIN d |->
                      IF k \in S THEN RenderStr(d[k], ctx, cfg) ELSE d[k]]
    IN  IF bad = {}
        THEN {[d |-> Upto(strs), ok |-> TRUE]}
        ELSE {[d |-> Upto(S), ok |-> FALSE] : S \in SUBSET (strs \ bad)}

\* context = {} and the builtins of lines 99-102.
FreshContext == [n \in CtxNames |-> IF n = "now" THEN NOW ELSE None]

NoContext == [n \in CtxNames |-> None]

\* A state of one get_context call: the configuration as rewritten so far, the
\* context so far, and whether no exception was raised yet.
CallState(cfg, ctx, ok) == [cfg |-> cfg, ctx |-> ctx, ok |-> ok]

\* render_strings_in_dict(d, context) for a `variables` mapping of section sec:
\* returns at once for an empty mapping, else renders and merges flat.
RenderVariables(st, sec) ==
    IF ~st.ok \/ ~HasVariables(st.cfg[sec])
    THEN {st}
    ELSE {CallState([st.cfg EXCEPT ![sec].vars = o.d],
                    IF o.ok THEN MergeInto(st.ctx, o.d) ELSE st.ctx,
                    o.ok) :
            o \in RenderLoop(st.cfg[sec].vars, st.ctx, st.cfg)}

\* render_strings_in_dict(d, context, section) for the dict of section sec: it
\* returns at line 77, storing nothing, when the dict is None or empty; the
\* `variables` entry is no str and is left alone.
RenderSection(st, sec, section) ==
    IF ~st.ok \/ sec \notin Sections \/ SecEmpty(st.cfg[sec])
    THEN {st}
    ELSE {CallState([st.cfg EXCEPT ![sec].keys = o.d],
                    IF o.ok THEN [st.ctx EXCEPT ![section] = View(sec)] ELSE st.ctx,
                    o.ok) :
            o \in RenderLoop(st.cfg[sec].keys, st.ctx, st.cfg)}

\* Lines 111-114: the report's variables, when the report exists and is not empty.
RenderReportVariables(st, name) ==
    IF name \in ReportNames /\ ~SecEmpty(st.cfg[name])
    THEN RenderVariables(st, name)
    ELSE {st}

Finish(st) == IF st.ok THEN [st EXCEPT !.ctx["hreport"] = SELF] ELSE st

\* For C5: get_context with the report's variables rendered before the global
\* layers.
get_context_report_first(cfg, name) ==
    LET s0 == {CallState(cfg, FreshContext, TRUE)}
        s1 == UNION {RenderReportVariables(s, name) : s \in s0}
        s2 == UNION {RenderVariables(s, "global") : s \in s1}
        s3 == UNION {RenderSection(s, "global", "global") : s \in s2}
        s4 == UNION {RenderSection(s, name, "report") : s \in s3}
    IN  {Finish(s) : s \in s4}

\* get_context(name): the outcomes [cfg, ctx, ok] of one call on cfg.
get_context(cfg, name) ==
    LET s0 == {CallState(cfg, FreshContext, TRUE)}
        s1 == UNION {RenderVariables(s, "global") : s \in s0}
        s2 == UNION {RenderSection(s, "global", "global") : s \in s1}
        s3 == UNION {RenderReportVariables(s, name) : s \in s2}
        s4 == UNION {RenderSection(s, name, "report") : s \in s3}
    IN  {Finish(s) : s \in s4}

\* What the query engine may print.
EngineOutputs == {Lit("o1"), Lit("o2")}

\* The invocation string, by its parts: 'hledger -f <ledger> <query>' or
\* 'hledger <query>' (ledger None).
Cmd(ledger, query) == [ledger |-> ledger, query |-> query]
NoCmd == Cmd(None, None)

RunResult(cfg, c, ok, out, query, invoked) ==
    [cfg |-> cfg, cmd |-> c, ok |-> ok, out |-> out, query |-> query,
     invoked |-> invoked]

\* run(name, query, ledger): the outcomes of one call.  from_string raises on a
\* query that is no str; check_output returns the engine's output or raises.
run(cfg, c, name, query_arg, ledger_arg) ==
    LET query == IF name # NoName
                 THEN get_report_config_value(cfg, name, "query")
                 ELSE query_arg
        ledger0 == IF name # NoName
                   THEN get_report_config_value(cfg, name, "ledger")
                   ELSE ledger_arg
        ledger == IF ~Truthy(ledger0)
                  THEN get_global_config_value(cfg, Lit("ledger"))
                  ELSE ledger0
    IN  IF ~IsStr(query)
        THEN {RunResult(cfg, c, FALSE, None, None, FALSE)}
        ELSE UNION {
               IF ~g.ok \/ Raises(query, g.ctx)
               THEN {RunResult(g.cfg, c, FALSE, None, None, FALSE)}
               ELSE LET q == RenderStr(query, g.ctx, g.cfg)
                        c2 == IF Truthy(ledger) THEN Cmd(ledger, q) ELSE Cmd(None, q)
                    IN  {RunResult(g.cfg, c2, TRUE, o, q, TRUE) : o \in EngineOutputs}
                        \cup {RunResult(g.cfg, c2, FALSE, None, q, TRUE)} :
               g \in get_context(cfg, name)}

RenderResult(r, ok, result, resolved) ==
    [cfg |-> r.cfg, cmd |-> r.cmd, ok |-> ok, result |-> result, out |-> r.out,
     query |-> r.query, invoked |-> r.invoked, resolved |-> resolved]

\* render(name): without a template the result of run(name); else the template
\* is looked up (it may be missing), the context built, the query run and the
\* template rendered (which may raise).
render(cfg, c, name) ==
    LET template_name == get_report_config_value(cfg, name, "template")
        none == RunResult(cfg, c, FALSE, None, None, FALSE)
    IN  IF ~Truthy(template_name)
        THEN {RenderResult(r, r.ok, r.out, FALSE) : r \in run(cfg, c, name, False, False)}
        ELSE {RenderResult(none, FALSE, None, TRUE)} \cup
             UNION {
               IF ~g.ok
               THEN {RenderResult(RunResult(g.cfg, c, FALSE, None, None, FALSE),
                                  FALSE, None, TRUE)}
               ELSE UNION {
                      IF ~r.ok
                      THEN {RenderResult(r, FALSE, None, TRUE)}
                      ELSE {RenderResult(r, TRUE, Doc(template_name, r.out), TRUE),
                            RenderResult(r, FALSE, None, TRUE)} :
                      r \in run(g.cfg, c, name, False, False)} :
               g \in get_context(cfg, name)}

\* template_name.split('.')[0]
Stem(s) ==
    CASE s = "t.html" -> "t"
      [] s = "gt.html" -> "gt"
      [] OTHER -> s

\* os.path.join(self.cfg_templates, <file>)
TemplatePath(file) == V("path", file, "")

\* The converter's invocation 'pandoc <input> -t html5 -o <output>[ --css <css>]'
\* by its parts (css None: no --css).
Pandoc(input, output, css) == [input |-> input, output |-> output, css |-> css]
NoPandoc == Pandoc(0, None, None)

\* '%s.pdf' % name
PdfName(name) == Lit((IF name = NoName THEN "False" ELSE name) \o ".pdf")

\* Lines 157-165: the stylesheet cmd ends up with.  The explicit styling is
\* formatted into `styling` and never appended to cmd.
CssOption(styling, template_name, cssOnDisk) ==
    IF Truthy(styling)
    THEN None
    ELSE IF Truthy(template_name) /\ cssOnDisk
         THEN TemplatePath(Stem(template_name.a) \o ".css")
         ELSE None

SaveResult(r, cfg, ok, result, converted, pandoc, unlinked) ==
    [cfg |-> cfg, cmd |-> r.cmd, ok |-> ok, result |-> result, out |-> r.out,
     query |-> r.query, invoked |-> r.invoked, resolved |-> r.resolved,
     converted |-> converted, pandoc |-> pandoc, unlinked |-> unlinked]

\* save(name) with temporary file tmp: the outcomes of one call.  os.unlink is
\* the last statement but one and is reached only when nothing raised.
save(cfg, c, name, tmp, cssOnDisk) ==
    UNION {
      IF ~r.ok
      THEN {SaveResult(r, r.cfg, FALSE, None, FALSE, NoPandoc, FALSE)}
      ELSE LET filename == get_report_config_value(r.cfg, name, "filename")
               output_file == IF ~Truthy(filename) THEN PdfName(name) ELSE filename
           IN  UNION {
                 IF ~g.ok \/ Raises(output_file, g.ctx)
                 THEN {SaveResult(r, g.cfg, FALSE, None, FALSE, NoPandoc, FALSE)}
                 ELSE LET out == RenderStr(output_file, g.ctx, g.cfg)
                          styling == get_report_config_value(g.cfg, name, "styling")
                          template_name ==
                              get_report_config_value(g.cfg, name, "template")
                          p == Pandoc(tmp, out,
                                      CssOption(styling, template_name, cssOnDisk))
                      IN  {SaveResult(r, g.cfg, TRUE, out, TRUE, p, TRUE),
                           SaveResult(r, g.cfg, FALSE, None, TRUE, p, FALSE)} :
                 g \in get_context(r.cfg, name)} :
      r \in render(cfg, c, name)}

\* The record of a call: its arguments, the configuration it started from (pre)
\* and what it did and returned.
Call(op, name, key, pre, ok, result, out, query, invoked, resolved, tmp, converted, pandoc, cssOnDisk) ==
    [op |-> op, name |-> name, key |-> key, pre |-> pre, ok |-> ok,
     result |-> result, out |-> out, query |-> query, invoked |-> invoked,
     resolved |-> resolved, tmp |-> tmp, converted |-> converted,
     pandoc |-> pandoc, cssOnDisk |-> cssOnDisk]

\* The default configuration: a global ledger and variable; report R1 with a
\* query and two variables; report R2 with a templated query, an empty ledger,
\* a document template and a variable named like the report view.
Base ==
    [s \in Sections |->
       CASE s = "global" ->
              Section([NoKeys EXCEPT !["ledger"] = Lit("main.journal")],
                      [NoVars EXCEPT !["x"] = Lit("a&b")])
         [] s = "R1" ->
              Section([NoKeys EXCEPT !["query"] = Lit("bal")],
                      [NoVars EXCEPT !["x"] = Lit("R"), !["z"] = Lit("Z")])
         [] OTHER ->
              Section([NoKeys EXCEPT !["query"] = Var("x"), !["ledger"] = Lit(""),
                                     !["template"] = Lit("t.html")],
                      [NoVars EXCEPT !["report"] = Lit("a")])]

Edit(sec, kind, k, v) == [sec |-> sec, kind |-> kind, k |-> k, v |-> v]

\* The ways a loaded configuration may differ from Base in one slot.
Edits ==
    {Edit("global", "keys", "ledger", None),
     Edit("global", "keys", "template", Lit("gt.html")),
     Edit("global", "keys", "", Lit("b")),
     Edit("global", "vars", "y", Var("z")),
     Edit("global", "vars", "report", Lit("a")),
     Edit("R1", "keys", "query", None),
     Edit("R1", "keys", "query", Attr("report", "ledger")),
     Edit("R1", "keys", "ledger", False),
     Edit("R1", "keys", "ledger", Lit("r1.journal")),
     Edit("R1", "keys", "template", Lit("")),
     Edit("R1", "keys", "filename", Var("x")),
     Edit("R1", "vars", "y", Attr("global", "ledger")),
     Edit("R1", "vars", "report", Lit("a")),
     Edit("R2", "keys", "query", Var("report")),
     Edit("R2", "keys", "styling", Lit("s.css")),
     Edit("R2", "keys", "template", None),
     Edit("R2", "vars", "x", Lit("R2"))}

Apply(cfg, e) ==
    IF e.kind = "keys"
    THEN [cfg EXCEPT ![e.sec].keys[e.k] = e.v]
    ELSE [cfg EXCEPT ![e.sec].vars[e.k] = e.v]

RECURSIVE Configs(_)
\* The configurations at most n edits away from Base.
Configs(n) ==
    IF n = 0 THEN {Base}
    ELSE LET prev == Configs(n - 1)
         IN  prev \cup {Apply(c, e) : c \in prev, e \in Edits}

NoCall ==
    Call("none", NoName, "", Base, TRUE, None, None, None, FALSE, FALSE, 0,
         FALSE, NoPandoc, FALSE)

Init ==
    /\ loaded \in Configs(MaxEdits)
    /\ config = loaded
    /\ cmd = NoCmd
    /\ files = {}
    /\ context = NoContext
    /\ last = NoCall

\* The keys callers look up.
LookupKeys == {"ledger"}

\* A call of get_report_config_value(name, key).
Lookup(name, key) ==
    /\ last' = Call("lookup", name, key, config, TRUE,
                    get_report_config_value(config, name, key), None, None,
                    FALSE, FALSE, 0, FALSE, NoPandoc, FALSE)
    /\ context' = NoContext
    /\ UNCHANGED <<loaded, config, cmd, files>>

\* A call of get_context(name).
GetContext(name) ==
    \E g \in get_context(config, name) :
        /\ config' = g.cfg
        /\ context' = IF g.ok THEN g.ctx ELSE NoContext
        /\ last' = Call("get_context", name, "", config, g.ok, None, None, None,
                        FALSE, FALSE, 0, FALSE, NoPandoc, FALSE)
        /\ UNCHANGED <<loaded, cmd, files>>

\* A call of run(name), or of run(False, query, ledger) with a literal query.
Run(name) ==
    \E r \in run(config, cmd, name, Lit("reg"), False) :
        /\ config' = r.cfg
        /\ cmd' = r.cmd
        /\ context' = NoContext
        /\ last' = Call("run", name, "", config, r.ok, r.out, r.out, r.query,
                        r.invoked, FALSE, 0, FALSE, NoPandoc, FALSE)
        /\ UNCHANGED <<loaded, files>>

\* A call of render(name).
Render(name) ==
    \E r \in render(config, cmd, name) :
        /\ config' = r.cfg
        /\ cmd' = r.cmd
        /\ context' = NoContext
        /\ last' = Call("render", name, "", config, r.ok, r.result, r.out, r.query,
                        r.invoked, r.resolved, 0, FALSE, NoPandoc, FALSE)
        /\ UNCHANGED <<loaded, files>>

\* NamedTemporaryFile(dir='.', delete=False): a name no file of the directory has.
NewTmp == Cardinality(files) + 1

\* A call of save(name): the temporary file is created first.
Save(name) ==
    /\ Cardinality(files) < MaxTmp
    /\ \E cssOnDisk \in BOOLEAN :
         \E r \in save(config, cmd, name, NewTmp, cssOnDisk) :
           /\ config' = r.cfg
           /\ cmd' = r.cmd
           /\ files' = IF r.unlinked THEN files ELSE files \cup {NewTmp}
           /\ context' = NoContext
           /\ last' = Call("save", name, "", config, r.ok, r.result, r.out,
                           r.query, r.invoked, r.resolved, NewTmp,
                           r.converted, r.pandoc, cssOnDisk)
           /\ UNCHANGED loaded

Next ==
    \/ \E name \in NameArgs, key \in LookupKeys : Lookup(name, key)
    \/ \E name \in NameArgs : GetContext(name)
    \/ \E name \in NameArgs : Run(name)
    \/ \E name \in NameArgs : Render(name)
    \/ \E name \in NameArgs : Save(name)

Spec == Init /\ [][Next]_vars

(***************************************************************************)
(* The claims.                                                             *)
(***************************************************************************)

\* The lookup rule as specified: the report's value when truthy, else the
\* global section's value for the same key.
SpecifiedLookup(cfg, name, key) ==
    LET value == get_report_config(cfg, name).keys[key]
    IN  IF Truthy(value) THEN value ELSE get_global_config(cfg).keys[key]

\* C1: get_report_config_value(name, key) returns the report's value for key
\* when it is present and truthy, and otherwise the global section's value for
\* that same key.
C1_LookupFallsBackToSameKey ==
    last.op = "lookup" =>
        last.result = SpecifiedLookup(config, last.name, last.key)

\* C2: once save(name) has ended, on any exit path, the temporary file it
\* created no longer exists.
C2_TempFileRemoved ==
    last.op = "save" => last.tmp \notin files

\* C3: when the report has an explicit styling and a template whose default
\* stylesheet is on disk, the converter is invoked with the explicit stylesheet
\* under the template directory as its --css.
C3_ExplicitStylingWins ==
    ( /\ last.op = "save"
      /\ last.converted
      /\ last.name \in ReportNames
      /\ last.cssOnDisk
      /\ Truthy(SpecifiedLookup(config, last.name, "styling"))
      /\ Truthy(SpecifiedLookup(config, last.name, "template")) )
    => last.pandoc.css = TemplatePath(SpecifiedLookup(config, last.name, "styling").a)

\* The names get_context binds after the report's variables are merged.
SetAfterReportVariables == {"report", "hreport"}

DefinedInBoth(cfg, name, n) ==
    cfg["global"].vars[n] # None /\ cfg[name].vars[n] # None

ReportOnly(n) ==
    /\ loaded["global"].vars[n] = None
    /\ n \notin {"now", "global"}
    /\ \E r \in ReportNames : loaded[r].vars[n] # None

\* C5: a global variable whose template refers to a variable only a report
\* defines renders as empty and never takes the report's value, in every call
\* of any sequence of calls.
C5_GlobalNeverSeesReportVariables ==
    \A g \in VarNames :
        LET template == loaded["global"].vars[g]
        IN  (template.t = "var" /\ ReportOnly(template.a)) =>
              /\ config["global"].vars[g] \in {template, Lit("")}
              /\ (last.op = "get_context" /\ last.ok) =>
                    /\ config["global"].vars[g] = Lit("")
                    /\ ( /\ g \notin SetAfterReportVariables
                         /\ get_report_config(config, last.name).vars[g] = None )
                       => context[g] = Lit("")

\* C5's case: the global y is "{{ z }}", z is a variable of R1 alone, and the
\* context of R1, built after an earlier call had rendered y, has z and an
\* empty y.
C5_Witness ==
    /\ last.op = "get_context" /\ last.ok /\ last.name = "R1"
    /\ loaded["global"].vars["y"] = Var("z")
    /\ last.pre["global"].vars["y"] = Lit("")
    /\ context["z"] = Lit("Z")
    /\ context["y"] = Lit("")

\* C6: for a report with no template configured, render(name) returns exactly
\* what the query engine printed for run(name), and no template is resolved.
C6_NoTemplatePassThrough ==
    ( /\ last.op = "render"
      /\ last.name \in ReportNames
      /\ last.pre[last.name].keys["template"] = None )
    => /\ ~last.resolved
       /\ last.ok => /\ last.invoked
                     /\ last.out \in EngineOutputs
                     /\ last.result = last.out

\* C6's case: R1 has no template and render(R1) returned what the engine
\* printed for 'hledger -f main.journal bal'.
C6_Witness ==
    /\ last.op = "render" /\ last.ok /\ last.name = "R1"
    /\ last.pre["R1"].keys["template"] = None
    /\ last.result = Lit("o2")
    /\ cmd = Cmd(Lit("main.journal"), Lit("bal"))

\* C7: in run(name) for a report whose ledger is absent or falsy, the engine is
\* invoked with the global section's ledger L as 'hledger -f L <query>', with
\* 'hledger <query>' only when the global section has none, and config.cmd
\* holds that invocation.
C7_LedgerFallsBackToGlobal ==
    ( /\ last.op = "run"
      /\ last.invoked
      /\ last.name \in ReportNames
      /\ ~Truthy(last.pre[last.name].keys["ledger"]) )
    => LET L == last.pre["global"].keys["ledger"]
       IN  cmd = IF Truthy(L) THEN Cmd(L, last.query) ELSE Cmd(None, last.query)

\* C8: no call of get_context, run, render or save changes a value of the
\* configuration mapping.
C8_ConfigurationReadOnly ==
    config = loaded

\* C9: get_context with no report name, or a name that is no report, completes
\* and returns a context whose `report` key is bound to an (empty) report view.
C9_EmptyReportView ==
    (last.op = "get_context" /\ last.name \notin ReportNames) =>
        /\ last.ok
        /\ context["report"].t = "view"

\* C10: the rendered query run(name) hands to the engine is the one run(name)
\* hands to it as the first operation on the freshly loaded configuration.
C10_RunHistoryIndependent ==
    (last.op = "run" /\ last.name \in ReportNames) =>
        \E first \in run(loaded, NoCmd, last.name, False, False) :
            /\ first.invoked = last.invoked
            /\ first.query = last.query

====
